---------------------------- MODULE Spec2Model ----------------------------
(***************************************************************************)
(* Model of the jaundice-rate article pipeline (src/main.py) and of the    *)
(* task-group orchestrator that fans it out (main in src/main.py, handle   *)
(* in src/server.py).                                                      *)
(*                                                                         *)
(* One asyncio event loop runs every pipeline: a pipeline gives up the     *)
(* loop only at its two awaits (fetch, split_by_words); everything between *)
(* two awaits of one pipeline is one uninterrupted step.  Time is a        *)
(* discrete clock in seconds; a timeout(T) block entered at time t has the *)
(* deadline t + T, the awaited operation can complete only before the      *)
(* deadline, and the clock cannot pass a deadline without the timer firing.*)
(***************************************************************************)
EXTENDS Naturals, Sequences, FiniteSets

VARIABLES
    urls,       \* the batch: the sequence of URLs given to the orchestrator
    param,      \* the urls query parameter of the HTTP request (None: main)
    orch,       \* where the orchestrator is
    pc,         \* pc[i]: where the pipeline of input position i is
    now,        \* the clock, in seconds
    deadline,   \* deadline[i]: deadline of the timeout block pipeline i is in
    more,       \* more[i]: the plaintext has tokens split_by_words has not read
    pos,        \* pos[i]: how many raw tokens split_by_words has read
    words,      \* words[i]: the normalized words split_by_words has collected
    results,    \* the shared results list
    order,      \* history: order[k] is the pipeline that appended results[k]
    trace,      \* history: trace[i] is the sequence of events of pipeline i
    returned    \* what the orchestrator returned (None until it returns)

vars == <<urls, param, orch, pc, now, deadline, more, pos, words, results, order,
          trace, returned>>

-----------------------------------------------------------------------------
(* Bounds of the model *)

MaxUrls == 2

MaxWords == 1

MaxParamLen == 6

(* Program constants *)

RESPONSE_TIMEOUT == 1

MORPH_TIMEOUT == 3

MAX_URLS == 5

-----------------------------------------------------------------------------
(* Values *)

Urls == {"u1", "u2"}

RawTokens == {"War", "calm", "--"}

CHARGED_WORDS == {"war"}

None == << >>

Some(v) == <<v>>

ProcessingStatus == {"OK", "FETCH_ERROR", "PARSING_ERROR", "TIMEOUT"}

SeqsUpTo(S, n) == UNION {[1..k -> S] : k \in 0..n}

Pipelines == DOMAIN urls

\* the characters of a urls parameter: a comma, or a piece of URL text
ParamChars == Urls \cup {","}

\* param.split(","): the pieces between the commas, one more than there are
\* commas; an empty parameter gives one empty URL
RECURSIVE Split(_)
Split(p) ==
    IF p = << >> THEN <<"">>
    ELSE LET rest == Split(Tail(p))
         IN  IF Head(p) = "," THEN <<"">> \o rest
             ELSE <<Head(p) \o Head(rest)>> \o Tail(rest)

\* the requests whose URLs are at most MaxUrls URLs of Urls
SmallRequests ==
    {p \in SeqsUpTo(ParamChars, 2 * MaxUrls) :
        /\ Len(Split(p)) <= MaxUrls
        /\ \A k \in DOMAIN Split(p) : Split(p)[k] \in Urls}

-----------------------------------------------------------------------------
(* text_tools: the tokenizer/normalizer adapter and the lexical scorer *)

\* the analyzer capability: the canonical lower-case form of a raw token
Normalize(tok) ==
    CASE tok = "War" -> "war"
      [] tok = "calm" -> "calm"
      [] OTHER -> tok

\* tokens that are not words are dropped by split_by_words
IsWord(tok) == tok \in {"War", "calm"}

\* one iteration of split_by_words: normalize the next raw token, keep it if
\* it is a word
SplitStep(ws, tok) == IF IsWord(tok) THEN Append(ws, Normalize(tok)) ELSE ws

CountCharged(ws, charged) == Cardinality({k \in DOMAIN ws : ws[k] \in charged})

\* a mutation of calculate_jaundice_rate: the empty sequence is not set apart,
\* the ratio is charged / 0
calculate_jaundice_rate_unguarded(ws, charged) ==
    <<CountCharged(ws, charged), Len(ws)>>

\* the score is the exact ratio <<charged, total>>; <<0, 1>> is 0.0
calculate_jaundice_rate(ws, charged) ==
    IF Len(ws) = 0 THEN <<0, 1>> ELSE <<CountCharged(ws, charged), Len(ws)>>

-----------------------------------------------------------------------------
(* ArticleResult and the except clauses of process_article *)

\* a mutation of ErrorResult: the fields default to 0 instead of None
ErrorResultZero(url, status) ==
    [url |-> url, status |-> status, words_count |-> Some(0),
     score |-> Some(<<0, 1>>)]

\* ArticleResult(url, status): words_count and score keep their default None
ErrorResult(url, status) ==
    [url |-> url, status |-> status, words_count |-> None, score |-> None]

\* ArticleResult(url, ProcessingStatus.OK, len(words), score)
OkResult(url, ws, score) ==
    [url |-> url, status |-> "OK", words_count |-> Some(Len(ws)),
     score |-> Some(score)]

\* what an except clause answers for an exception it does not name
UNCAUGHT == "UNCAUGHT"

\* the exceptions the awaited fetch can end with
FetchExceptions == {"ClientError", "TimeoutError", "OtherError"}

\* a mutation of OnFetchException: the clause for asyncio.TimeoutError is
\* missing
OnFetchExceptionNoTimeout(e) ==
    CASE e = "ClientError" -> "FETCH_ERROR"
      [] OTHER -> UNCAUGHT

\* a mutation of OnFetchException: the two except clauses answer each
\* other's status
OnFetchExceptionSwapped(e) ==
    CASE e = "ClientError" -> "TIMEOUT"
      [] e = "TimeoutError" -> "FETCH_ERROR"
      [] OTHER -> UNCAUGHT

\* except aiohttp.ClientError / except asyncio.TimeoutError around the fetch
OnFetchException(e) ==
    CASE e = "ClientError" -> "FETCH_ERROR"
      [] e = "TimeoutError" -> "TIMEOUT"
      [] OTHER -> UNCAUGHT

\* a mutation of OnSanitizeException: the clause reports a fetch error
OnSanitizeExceptionAsFetch(e) ==
    CASE e = "ArticleNotFound" -> "FETCH_ERROR"
      [] OTHER -> UNCAUGHT

\* except ArticleNotFound around sanitize
OnSanitizeException(e) ==
    CASE e = "ArticleNotFound" -> "PARSING_ERROR"
      [] OTHER -> UNCAUGHT

\* a mutation of OnSplitException: the clause reports a parsing error
OnSplitExceptionAsParsing(e) ==
    CASE e = "TimeoutError" -> "PARSING_ERROR"
      [] OTHER -> UNCAUGHT

\* except asyncio.TimeoutError around split_by_words
OnSplitException(e) ==
    CASE e = "TimeoutError" -> "TIMEOUT"
      [] OTHER -> UNCAUGHT

\* a mutation of ResultsAppend: a concurrent append is lost, the list is
\* written back from a stale empty copy
ResultsReplace(rs, r) == <<r>>

\* a mutation of ResultsAppend: the new result overwrites the last entry
ResultsReplaceLast(rs, r) ==
    IF rs = << >> THEN <<r>> ELSE [rs EXCEPT ![Len(rs)] = r]

\* a mutation of ResultsAppend: the result is inserted at the front
ResultsPrepend(rs, r) == <<r>> \o rs

\* results.append(r)
ResultsAppend(rs, r) == Append(rs, r)

-----------------------------------------------------------------------------
(* The event loop *)

Suspended(i) == pc[i] \in {"Fetching", "Scoring"}

\* a pipeline is in the middle of a step that has no await: nothing else runs
LoopBusy == \E j \in Pipelines : pc[j] = "Sanitizing"

\* spawned tasks take their first step before the loop waits for anything
NonePending == \A j \in Pipelines : pc[j] # "Pending"

LoopIdle == orch = "Waiting" /\ NonePending /\ ~LoopBusy

\* the task group's cancel scope is cancelled once a child has raised
ScopeCancelled == \E j \in Pipelines : pc[j] = "Raised"

Terminal(i) == pc[i] \in {"Done", "Raised", "Cancelled"}

\* a mutation of AllEnded: the task group stops waiting at the first child
\* that ends
SomeEnded == \E i \in Pipelines : Terminal(i)

\* the exit of the task group's block waits for every child to end
AllEnded == \A i \in Pipelines : Terminal(i)

-----------------------------------------------------------------------------
(* Initial state: the orchestrator has been called with a batch *)

\* the orchestrator is about to be called with batch us (main), or a request
\* with the urls parameter p has arrived (handle)
InitWith(us, p) ==
    /\ urls = us
    /\ param = p
    /\ orch = "Boot"
    /\ pc = [i \in DOMAIN us |-> "NotSpawned"]
    /\ now = 0
    /\ deadline = [i \in DOMAIN us |-> 0]
    /\ more = [i \in DOMAIN us |-> FALSE]
    /\ pos = [i \in DOMAIN us |-> 0]
    /\ words = [i \in DOMAIN us |-> << >>]
    /\ results = << >>
    /\ order = << >>
    /\ trace = [i \in DOMAIN us |-> << >>]
    /\ returned = None

Init ==
    \/ \E us \in SeqsUpTo(Urls, MaxUrls) : InitWith(us, None)
    \/ \E p \in SmallRequests : InitWith(<< >>, Some(p))

-----------------------------------------------------------------------------
(* The orchestrator: main (src/main.py) and handle (src/server.py) *)

\* a mutation of LoadConfig: the dictionary and the analyzer are loaded
\* lazily, while the pipelines already run
LoadConfigLate ==
    /\ orch \in {"Boot", "Waiting"}
    /\ \E ok \in BOOLEAN :
          orch' = IF ~ok THEN "ConfigError"
                  ELSE IF orch = "Boot" THEN "Called" ELSE orch
    /\ UNCHANGED <<urls, param, pc, now, deadline, more, pos, words, results,
                   order, trace, returned>>

\* load_charged_words and MorphAnalyzer(): both succeed, or one raises and
\* ends the call (main) or the server process (server.py) there
LoadConfig ==
    /\ orch = "Boot"
    /\ \E ok \in BOOLEAN : orch' = IF ok THEN "Called" ELSE "ConfigError"
    /\ UNCHANGED <<urls, param, pc, now, deadline, more, pos, words, results,
                   order, trace, returned>>

\* a mutation of TooMany: the limit is off by one
TooManyOffByOne(us) == Len(us) >= MAX_URLS

\* len(urls) > MAX_URLS
TooMany(us) == Len(us) > MAX_URLS

\* handle: split the parameter, reject with HTTPBadRequest when there are
\* too many URLs, else results = [], the for loop of tg.start_soon, and the
\* task group waits
HandleRequest ==
    /\ orch = "Called"
    /\ param # None
    /\ LET us == Split(param[1])
       IN  /\ urls' = us
           /\ orch' = IF TooMany(us) THEN "Rejected" ELSE "Waiting"
           /\ pc' = [i \in DOMAIN us |->
                        IF TooMany(us) THEN "NotSpawned" ELSE "Pending"]
           /\ deadline' = [i \in DOMAIN us |-> 0]
           /\ more' = [i \in DOMAIN us |-> FALSE]
           /\ pos' = [i \in DOMAIN us |-> 0]
           /\ words' = [i \in DOMAIN us |-> << >>]
           /\ trace' = [i \in DOMAIN us |-> << >>]
    /\ results' = << >>
    /\ UNCHANGED <<param, now, order, returned>>

\* results = []; the for loop of tg.start_soon; then the task group waits
SpawnAll ==
    /\ orch = "Called"
    /\ param = None
    /\ orch' = "Waiting"
    /\ pc' = [i \in Pipelines |-> "Pending"]
    /\ results' = << >>
    /\ UNCHANGED <<urls, param, now, deadline, more, pos, words, order, trace,
                   returned>>

\* every child ended without raising: the task group exits, results are
\* returned
OrchReturn ==
    /\ orch = "Waiting"
    /\ AllEnded
    /\ ~ScopeCancelled
    /\ orch' = "Returned"
    /\ returned' = Some(results)
    /\ UNCHANGED <<urls, param, pc, now, deadline, more, pos, words, results, order,
                   trace>>

\* a child raised: once all children have ended the task group raises in the
\* orchestrator, which returns nothing
OrchRaise ==
    /\ orch = "Waiting"
    /\ AllEnded
    /\ ScopeCancelled
    /\ orch' = "Raised"
    /\ UNCHANGED <<urls, param, pc, now, deadline, more, pos, words, results, order,
                   trace, returned>>

-----------------------------------------------------------------------------
(* process_article *)

\* how a step of pipeline i ends when an except clause answers `status` for
\* the exception raised: append the error result and return, or let the
\* exception leave process_article
Handle(i, status, events) ==
    IF status = UNCAUGHT
    THEN /\ pc' = [pc EXCEPT ![i] = "Raised"]
         /\ trace' = [trace EXCEPT ![i] = @ \o events \o <<"raise">>]
         /\ UNCHANGED <<results, order>>
    ELSE /\ pc' = [pc EXCEPT ![i] = "Done"]
         /\ results' = ResultsAppend(results, ErrorResult(urls[i], status))
         /\ order' = Append(order, i)
         /\ trace' = [trace EXCEPT ![i] = @ \o events \o <<"append">>]

\* the task's first step: enter timeout(RESPONSE_TIMEOUT), call fetch, await
Start(i) ==
    /\ orch = "Waiting"
    /\ pc[i] = "Pending"
    /\ \A j \in Pipelines : j < i => pc[j] # "Pending"
    /\ pc' = [pc EXCEPT ![i] = "Fetching"]
    /\ deadline' = [deadline EXCEPT ![i] = now + RESPONSE_TIMEOUT]
    /\ trace' = [trace EXCEPT ![i] = Append(@, "fetch")]
    /\ UNCHANGED <<urls, param, orch, now, more, pos, words, results, order,
                   returned>>

\* fetch returns the page before the deadline; the pipeline goes on to
\* sanitize without giving up the loop
FetchReturns(i) ==
    /\ LoopIdle
    /\ pc[i] = "Fetching"
    /\ now < deadline[i]
    /\ pc' = [pc EXCEPT ![i] = "Sanitizing"]
    /\ deadline' = [deadline EXCEPT ![i] = 0]
    /\ trace' = [trace EXCEPT ![i] = Append(@, "fetch.ok")]
    /\ UNCHANGED <<urls, param, orch, now, more, pos, words, results, order,
                   returned>>

\* fetch raises before the deadline: a transport or protocol failure
\* (ClientError), or anything else (OtherError)
FetchRaises(i) ==
    /\ LoopIdle
    /\ pc[i] = "Fetching"
    /\ now < deadline[i]
    /\ \E e \in FetchExceptions \ {"TimeoutError"} :
          Handle(i, OnFetchException(e), <<"fetch." \o e>>)
    /\ deadline' = [deadline EXCEPT ![i] = 0]
    /\ UNCHANGED <<urls, param, orch, now, more, pos, words, returned>>

\* the fetch deadline passes first: timeout raises asyncio.TimeoutError
FetchExpires(i) ==
    /\ LoopIdle
    /\ pc[i] = "Fetching"
    /\ now >= deadline[i]
    /\ Handle(i, OnFetchException("TimeoutError"), <<"fetch.TimeoutError">>)
    /\ deadline' = [deadline EXCEPT ![i] = 0]
    /\ UNCHANGED <<urls, param, orch, now, more, pos, words, returned>>

\* the outcomes of sanitize(html, plaintext=True)
SanitizeExceptions == {"ArticleNotFound", "OtherError"}

\* whether a plaintext of which n raw tokens were read can hold another one
MayHaveMore(n) == {m \in BOOLEAN : m => n < MaxWords}

\* sanitize, and on success the entry into timeout(MORPH_TIMEOUT) and the
\* call of split_by_words, which awaits; the plaintext is revealed token by
\* token as split_by_words reads it
Sanitize(i) ==
    /\ orch = "Waiting"
    /\ pc[i] = "Sanitizing"
    /\ \/ \E m \in MayHaveMore(0) :
             /\ pc' = [pc EXCEPT ![i] = "Scoring"]
             /\ more' = [more EXCEPT ![i] = m]
             /\ deadline' = [deadline EXCEPT ![i] = now + MORPH_TIMEOUT]
             /\ trace' = [trace EXCEPT
                            ![i] = @ \o <<"sanitize", "sanitize.ok", "split">>]
             /\ UNCHANGED <<pos, words, results, order>>
       \/ \E e \in SanitizeExceptions :
             /\ Handle(i, OnSanitizeException(e),
                       <<"sanitize", "sanitize." \o e>>)
             /\ UNCHANGED <<more, pos, words, deadline>>
    /\ UNCHANGED <<urls, param, orch, now, returned>>

\* split_by_words has normalized every token and is about to return
SplitReady(i) == pc[i] = "Scoring" /\ ~more[i]

\* what leaves the pipeline's frame when process_article ends
Forget(i) ==
    /\ deadline' = [deadline EXCEPT ![i] = 0]
    /\ more' = [more EXCEPT ![i] = FALSE]
    /\ pos' = [pos EXCEPT ![i] = 0]
    /\ words' = [words EXCEPT ![i] = << >>]

\* split_by_words normalizes its next token and gives up the loop
NormalizeOne(i) ==
    /\ LoopIdle
    /\ pc[i] = "Scoring"
    /\ more[i]
    /\ now < deadline[i]
    /\ \E tok \in RawTokens :
          words' = [words EXCEPT ![i] = SplitStep(@, tok)]
    /\ pos' = [pos EXCEPT ![i] = @ + 1]
    /\ \E m \in MayHaveMore(pos[i] + 1) : more' = [more EXCEPT ![i] = m]
    /\ UNCHANGED <<urls, param, orch, pc, now, deadline, results, order, trace,
                   returned>>

\* the event of calling the scorer on the words collected so far
ScoreEvent(i) == IF more[i] THEN "score.partial" ELSE "score"

\* split_by_words returns before the deadline: score the words, append OK
SplitReturns(i) ==
    /\ LoopIdle
    /\ SplitReady(i)
    /\ now < deadline[i]
    /\ LET score == calculate_jaundice_rate(words[i], CHARGED_WORDS)
       IN  results' = ResultsAppend(results, OkResult(urls[i], words[i], score))
    /\ order' = Append(order, i)
    /\ pc' = [pc EXCEPT ![i] = "Done"]
    /\ trace' = [trace EXCEPT
                   ![i] = @ \o <<"split.ok", ScoreEvent(i), "append">>]
    /\ Forget(i)
    /\ UNCHANGED <<urls, param, orch, now, returned>>

\* the analyzer raises on a token
SplitRaises(i) ==
    /\ LoopIdle
    /\ pc[i] = "Scoring"
    /\ more[i]
    /\ now < deadline[i]
    /\ Handle(i, OnSplitException("OtherError"), <<"split.OtherError">>)
    /\ Forget(i)
    /\ UNCHANGED <<urls, param, orch, now, returned>>

\* the normalize deadline passes first: timeout raises asyncio.TimeoutError
SplitExpires(i) ==
    /\ LoopIdle
    /\ pc[i] = "Scoring"
    /\ now >= deadline[i]
    /\ Handle(i, OnSplitException("TimeoutError"), <<"split.TimeoutError">>)
    /\ Forget(i)
    /\ UNCHANGED <<urls, param, orch, now, returned>>

\* the cancelled task group cancels a child at its await: CancelledError is
\* named by no except clause and ends process_article
Cancel(i) ==
    /\ LoopIdle
    /\ ScopeCancelled
    /\ Suspended(i)
    /\ pc' = [pc EXCEPT ![i] = "Cancelled"]
    /\ trace' = [trace EXCEPT ![i] = Append(@, "cancelled")]
    /\ Forget(i)
    /\ UNCHANGED <<urls, param, orch, now, results, order, returned>>

\* a second passes: only while the loop has nothing to run, that is while
\* some pipeline waits, none of them has reached its deadline, none is about
\* to return and no cancellation is to be delivered
Tick ==
    /\ LoopIdle
    /\ ~ScopeCancelled
    /\ \E i \in Pipelines : Suspended(i)
    /\ \A i \in Pipelines :
          Suspended(i) => now < deadline[i] /\ ~SplitReady(i)
    /\ now' = now + 1
    /\ UNCHANGED <<urls, param, orch, pc, deadline, more, pos, words, results, order,
                   trace, returned>>

-----------------------------------------------------------------------------

Next ==
    \/ LoadConfig
    \/ HandleRequest
    \/ SpawnAll
    \/ OrchReturn
    \/ OrchRaise
    \/ Tick
    \/ \E i \in Pipelines : Start(i)
    \/ \E i \in Pipelines : FetchReturns(i)
    \/ \E i \in Pipelines : FetchRaises(i)
    \/ \E i \in Pipelines : FetchExpires(i)
    \/ \E i \in Pipelines : Sanitize(i)
    \/ \E i \in Pipelines : NormalizeOne(i)
    \/ \E i \in Pipelines : SplitReturns(i)
    \/ \E i \in Pipelines : SplitRaises(i)
    \/ \E i \in Pipelines : SplitExpires(i)
    \/ \E i \in Pipelines : Cancel(i)

Spec == Init /\ [][Next]_vars

\* the HTTP front end alone, for every urls parameter of up to MaxParamLen
\* characters: the request is parsed and checked and the pipelines start
InitHandle == \E p \in SeqsUpTo(ParamChars, MaxParamLen) : InitWith(<< >>, Some(p))

NextHandle ==
    \/ LoadConfig
    \/ HandleRequest
    \/ \E i \in Pipelines : Start(i)

SpecHandle == InitHandle /\ [][NextHandle]_vars

\* the scheduling of the event loop: whatever can run does run
SpecFair == Init /\ [][Next]_vars /\ WF_vars(Next)

-----------------------------------------------------------------------------
(* Vocabulary of the properties *)

\* pipeline i has gone through event ev
HasEvent(i, ev) == \E k \in DOMAIN trace[i] : trace[i][k] = ev

\* the positions of the results list that pipeline i appended
AppendsOf(i) == {k \in DOMAIN order : order[k] = i}

\* pipeline i appended exactly one result, and it is r
OnlyResult(i, r) ==
    /\ Cardinality(AppendsOf(i)) = 1
    /\ \A k \in AppendsOf(i) : k \in DOMAIN results /\ results[k] = r

\* pipeline i never went into sanitize
NoSanitize(i) == ~HasEvent(i, "sanitize")

\* pipeline i never went into the tokenize/normalize and scoring stage
NoScoring(i) ==
    /\ ~HasEvent(i, "split")
    /\ ~HasEvent(i, "score")
    /\ ~HasEvent(i, "score.partial")

-----------------------------------------------------------------------------
C2_ExactlyOneAppend ==
    \A i \in Pipelines : Terminal(i) => Cardinality(AppendsOf(i)) = 1

(* C3: when the orchestrator returns its results every pipeline it spawned *)
(* is Done, none is Fetching, Sanitizing or Scoring, and the results hold  *)
(* exactly one entry per URL of the batch.                                 *)
C3_ReturnsAfterAllDone ==
    orch = "Returned" =>
        /\ \A i \in Pipelines : pc[i] = "Done"
        /\ Len(results) = Len(urls)
        /\ returned = Some(results)

C3_Witness ==
    /\ orch = "Returned"
    /\ Len(urls) = 2
    /\ \E k \in DOMAIN results : results[k].status # "OK"
    /\ \E k \in DOMAIN results : results[k].status = "OK"

(* C4: no exception leaves a pipeline: no run of process_article ends by   *)
(* raising, and the orchestrator's task group never raises.                *)
C4_NoEscape ==
    /\ \A i \in Pipelines : pc[i] # "Raised"
    /\ orch # "Raised"

(* C5: no pipeline is ever cancelled because of what happened in a         *)
(* sibling: every pipeline runs until it has appended its own result.      *)
C5_NoSiblingCancel ==
    \A j \in Pipelines : pc[j] # "Cancelled" /\ ~HasEvent(j, "cancelled")

(* C6: a pipeline whose fetch failed with a transport or protocol failure  *)
(* before the fetch deadline is Done with the one result FETCH_ERROR,      *)
(* words_count and score absent, and never entered sanitize or scoring.    *)
C6_FetchError ==
    \A i \in Pipelines :
        HasEvent(i, "fetch.ClientError") =>
            /\ pc[i] = "Done"
            /\ OnlyResult(i, [url |-> urls[i], status |-> "FETCH_ERROR",
                              words_count |-> None, score |-> None])
            /\ NoSanitize(i)
            /\ NoScoring(i)

C6_Witness ==
    \E i \in Pipelines :
        /\ HasEvent(i, "fetch.ClientError")
        /\ pc[i] = "Done"
        /\ now < RESPONSE_TIMEOUT

(* C7: a pipeline whose fetch was ended by the fetch deadline              *)
(* RESPONSE_TIMEOUT is Done with a result whose status is TIMEOUT, never   *)
(* FETCH_ERROR or OK; and the deadline ends a fetch only once              *)
(* RESPONSE_TIMEOUT seconds have passed.                                   *)
C7_FetchTimeout ==
    \A i \in Pipelines :
        HasEvent(i, "fetch.TimeoutError") =>
            /\ pc[i] = "Done"
            /\ Cardinality(AppendsOf(i)) = 1
            /\ \A k \in AppendsOf(i) :
                  /\ results[k].url = urls[i]
                  /\ results[k].status = "TIMEOUT"
                  /\ results[k].status \notin {"FETCH_ERROR", "OK"}
            /\ now >= RESPONSE_TIMEOUT

C7_Witness ==
    \E i \in Pipelines :
        /\ HasEvent(i, "fetch.TimeoutError")
        /\ pc[i] = "Done"
        /\ \E k \in AppendsOf(i) : results[k].status = "TIMEOUT"

(* C8: a pipeline whose tokenize/normalize stage was ended by the deadline *)
(* MORPH_TIMEOUT is Done with the one result TIMEOUT, without words_count  *)
(* and without score, and never called the scorer; and no pipeline ever    *)
(* calls the scorer while tokens of its plaintext are still to normalize.  *)
C8_NormalizeTimeout ==
    /\ \A i \in Pipelines :
          HasEvent(i, "split.TimeoutError") =>
              /\ pc[i] = "Done"
              /\ OnlyResult(i, [url |-> urls[i], status |-> "TIMEOUT",
                                words_count |-> None, score |-> None])
              /\ ~HasEvent(i, "score")
    /\ \A i \in Pipelines : ~HasEvent(i, "score.partial")

C8_Witness ==
    \E i \in Pipelines :
        /\ HasEvent(i, "split.TimeoutError")
        /\ pc[i] = "Done"
        /\ now >= MORPH_TIMEOUT

(* C9: a pipeline whose fetch succeeded and whose page sanitize rejected   *)
(* as not an article is Done with the one result PARSING_ERROR and never   *)
(* entered the scoring stage.                                              *)
C9_ParsingError ==
    \A i \in Pipelines :
        HasEvent(i, "sanitize.ArticleNotFound") =>
            /\ HasEvent(i, "fetch.ok")
            /\ pc[i] = "Done"
            /\ \A k \in AppendsOf(i) :
                  results[k].url = urls[i] /\ results[k].status = "PARSING_ERROR"
            /\ Cardinality(AppendsOf(i)) = 1
            /\ NoScoring(i)

C9_Witness ==
    \E i \in Pipelines :
        /\ HasEvent(i, "fetch.ok")
        /\ HasEvent(i, "sanitize.ArticleNotFound")
        /\ pc[i] = "Done"

(* C10: every entry of the results list has one status out of OK,          *)
(* FETCH_ERROR, PARSING_ERROR, TIMEOUT; words_count and score are both     *)
(* present when it is OK and both absent when it is anything else.         *)
C10_ResultShape ==
    \A k \in DOMAIN results :
        /\ results[k].status \in ProcessingStatus
        /\ results[k].status = "OK" =>
              results[k].words_count # None /\ results[k].score # None
        /\ results[k].status # "OK" =>
              results[k].words_count = None /\ results[k].score = None

C10_Witness ==
    /\ \E k \in DOMAIN results :
          results[k].status = "OK" /\ results[k].words_count = Some(1)
    /\ \E k \in DOMAIN results :
          results[k].status # "OK" /\ results[k].words_count = None

-----------------------------------------------------------------------------
\* how many URLs the urls parameter of the request holds
UrlCount == Cardinality({k \in DOMAIN param[1] : param[1][k] = ","}) + 1

\* the request has been looked at by handle
Handled == param # None /\ orch \notin {"Boot", "Called", "ConfigError"}

(* C11: a request whose urls parameter holds more than MAX_URLS URLs is    *)
(* rejected, no pipeline is spawned for it and no fetch is performed; a    *)
(* request with MAX_URLS or fewer URLs is not rejected, its pipelines are  *)
(* spawned.                                                                *)
C11_UrlLimit ==
    Handled =>
        /\ Len(urls) = UrlCount
        /\ UrlCount > MAX_URLS =>
              /\ orch = "Rejected"
              /\ \A i \in Pipelines : pc[i] = "NotSpawned" /\ trace[i] = << >>
              /\ results = << >>
        /\ UrlCount <= MAX_URLS =>
              /\ orch # "Rejected"
              /\ \A i \in Pipelines : pc[i] # "NotSpawned"

C11_Witness ==
    /\ Handled
    /\ UrlCount = MAX_URLS + 1
    /\ orch = "Rejected"
    /\ \E k \in DOMAIN urls : urls[k] \in Urls

(* C12: a request within the URL-count limit is never answered with an     *)
(* HTTP error: handle never ends by raising, whatever the pipelines of the *)
(* request ended with.                                                     *)
C12_NeverHttpError ==
    (Handled /\ UrlCount <= MAX_URLS) => orch # "Raised"

(* C13: when loading the charged words or constructing the analyzer fails, *)
(* no pipeline has been started: no fetch was issued and no result was     *)
(* produced for any URL of the batch.                                      *)
C13_ConfigErrorFirst ==
    orch = "ConfigError" =>
        /\ \A i \in Pipelines : pc[i] = "NotSpawned" /\ trace[i] = << >>
        /\ results = << >>
        /\ order = << >>
        /\ returned = None

C13_Witness ==
    /\ orch = "ConfigError"
    /\ Len(urls) = 2

-----------------------------------------------------------------------------
(* C14: when split_by_words returns no word at all, the pipeline ends with *)
(* the result OK, words_count = 0 and score = 0.0 (the ratio <<0, 1>>): it *)
(* does not raise and gets no other status.                                *)
C14_ZeroTokens ==
    [][\A i \in Pipelines :
          (SplitReady(i) /\ words[i] = << >> /\ pc'[i] \in {"Done", "Raised"})
          => /\ pc'[i] = "Done"
             /\ results' = Append(results,
                                  [url |-> urls[i], status |-> "OK",
                                   words_count |-> Some(0),
                                   score |-> Some(<<0, 1>>)])]_vars

C14_Witness ==
    \E i \in Pipelines :
        /\ pc[i] = "Done"
        /\ HasEvent(i, "split.ok")
        /\ \E k \in AppendsOf(i) :
              /\ results[k].status = "OK"
              /\ results[k].words_count = Some(0)
              /\ results[k].score = Some(<<0, 1>>)

\* how often event ev is in the events t
CountEvent(t, ev) == Cardinality({k \in DOMAIN t : t[k] = ev})

\* the moves of a pipeline the claim allows, after the spawn
StageMoves ==
    {<<"NotSpawned", "Pending">>, <<"Pending", "Fetching">>,
     <<"Fetching", "Sanitizing">>, <<"Sanitizing", "Scoring">>,
     <<"Fetching", "Done">>, <<"Sanitizing", "Done">>, <<"Scoring", "Done">>}

(* C15: a pipeline moves only along Fetching -> Sanitizing -> Scoring ->   *)
(* Done, with any failure going directly to Done and Done terminal, and    *)
(* fetch, sanitize and split_by_words are each called at most once.        *)
C15_StageOrder ==
    [][\A i \in Pipelines :
          /\ pc'[i] # pc[i] => <<pc[i], pc'[i]>> \in StageMoves
          /\ CountEvent(trace'[i], "fetch") <= 1
          /\ CountEvent(trace'[i], "sanitize") <= 1
          /\ CountEvent(trace'[i], "split") <= 1]_vars

\* results[k] is the complete result of pipeline i
ResultOfPipeline(k, i) ==
    /\ results[k].url = urls[i]
    /\ results[k].status \in ProcessingStatus
    /\ results[k].status = "OK" <=> HasEvent(i, "split.ok")
    /\ results[k].status = "OK" <=> results[k].words_count # None
    /\ results[k].status = "OK" <=> results[k].score # None

(* C16: in every state the results list has as many entries as there are   *)
(* pipelines that are Done, each entry is the complete result of exactly   *)
(* one of them, and a pipeline that has appended is Done: it is never      *)
(* waiting at its fetch or normalize await with its append made.           *)
C16_NoLostAppend ==
    /\ Len(results) = Cardinality({i \in Pipelines : pc[i] = "Done"})
    /\ Len(order) = Len(results)
    /\ \A k \in DOMAIN results :
          /\ order[k] \in Pipelines
          /\ pc[order[k]] = "Done"
          /\ ResultOfPipeline(k, order[k])
    /\ \A i \in Pipelines :
          /\ Cardinality(AppendsOf(i)) = CountEvent(trace[i], "append")
          /\ Cardinality(AppendsOf(i)) = IF pc[i] = "Done" THEN 1 ELSE 0

C16_Witness ==
    /\ Len(results) = 1
    /\ Len(urls) = 2
    /\ \E i \in Pipelines : pc[i] = "Done"
    /\ \E i \in Pipelines : Suspended(i)

(* C17: under fair scheduling every batch that has been spawned ends with  *)
(* every pipeline Done and the orchestrator returning its results.         *)
C17_EventuallyReturns ==
    (orch = "Waiting") ~> (orch = "Returned" /\ \A i \in Pipelines : pc[i] = "Done")

(* C18: no step changes, replaces or removes an entry of the results list: *)
(* a step leaves the list as it is or adds one entry at its end, and what  *)
(* the orchestrator returns is that list.                                  *)
C18_ResultsImmutable ==
    [][/\ Len(results') \in {Len(results), Len(results) + 1}
       /\ \A k \in DOMAIN results : results'[k] = results[k]
       /\ returned # None => returned' = returned /\ results' = results]_vars

C18_Witness ==
    /\ Len(results) = 2
    /\ orch = "Returned"
    /\ results[1].status # results[2].status

(* C19: the results list is in completion order: the result of a pipeline  *)
(* that becomes Done is put after the results of all pipelines that were   *)
(* Done before it, whatever their input positions, and the list is         *)
(* returned in that order.                                                 *)
C19_CompletionOrdered ==
    [][/\ \A i \in Pipelines :
             (pc[i] # "Done" /\ pc'[i] = "Done") =>
                 /\ Len(results') = Len(results) + 1
                 /\ results'[Len(results')].url = urls[i]
                 /\ \A j \in Pipelines :
                       pc[j] = "Done" =>
                           \E k \in 1..Len(results) :
                               results'[k] = results[k] /\ order[k] = j
       /\ orch' = "Returned" => returned' = Some(results)]_vars

C19_Witness ==
    /\ orch = "Returned"
    /\ Len(urls) = 2
    /\ urls[1] # urls[2]
    /\ HasEvent(2, "fetch.ClientError")
    /\ HasEvent(1, "split.ok")
    /\ returned[1][1].url = urls[2]
    /\ returned[1][2].url = urls[1]

=============================================================================
